---------------------------- MODULE Spec2Model ----------------------------
(***************************************************************************)
(* ISMF-Battery-Monitor: the PowerMonitor polling / lifecycle engine.      *)
(*                                                                         *)
(* One PowerMonitor instance, its display controller, the power sensor and *)
(* the threads that execute its code:                                      *)
(*   main, other : threads of the process that use the monitor; each calls *)
(*                 start(), stop() and run_time and assigns to running,    *)
(*                 one call at a time; Ctrl-C interrupts the main thread.  *)
(*                 start() blocks its caller inside run() until the loop   *)
(*                 exits.                                                  *)
(*   worker      : the Thread created by start(threaded=True).             *)
(* The code takes no lock, so the steps of different threads interleave.   *)
(* A step is one access to the monitor's shared fields or one call of an   *)
(* external collaborator (sensor, display, audio, sleep); logging reads    *)
(* are left out.  The prologue of start() (lines 389-395) is one step.     *)
(*                                                                         *)
(* Beside the monitor: its device binding (set_device) and the GUI's       *)
(* EventCollection, each used from a single thread, one call per step; the *)
(* exit-call handler's call of stop() at process exit; and the GUI's       *)
(* windows, singletons of SingletonABCMeta, constructed and used by main   *)
(* and other.                                                              *)
(***************************************************************************)
EXTENDS Integers, Sequences, FiniteSets, TLC

\* ---------------------------------------------------------------- bounds
\* The clock stops at MaxTime, the loops stop taking samples at MaxCycles.
MaxTime == 2
MaxCycles == 2
\* A collection holds at most MaxEvents events, an event is handled at most
\* MaxHandled times.
MaxEvents == 3
MaxHandled == 2
\* At most MaxMade singleton objects are created.
MaxMade == 3

\* ------------------------------------------------------------- constants
\* Python's None for the two timestamps (monitor.py:45-46).
None == -1

Threads == {"main", "other", "worker"}
Clients == {"main", "other"}

VARIABLES
    running,      \* PowerMonitor._running
    lastState,    \* PowerMonitor._last_state: "Unknown" (None), "Plugged" (True), "Unplugged" (False)
    cycles,       \* PowerMonitor.__cycles
    startTime,    \* PowerMonitor.__start_time
    stopTime,     \* PowerMonitor.__stop_time
    now,          \* time.time()
    sensor,       \* psutil.sensors_battery().power_plugged
    animating,    \* controller.is_animating
    display,      \* last command the display received
    thr,          \* per thread: position in the code and locals
    outcome,      \* the API call made in the last step, if any, and the error it raised
    runs,         \* the current maximal run of same-valued samples and the sounds played in it
    round,        \* clock readings of the latest successful start() and stop()
    controller,   \* PowerMonitor.__controller
    dev,          \* PowerMonitor.__dev
    events,       \* EventCollection.__events
    ech,          \* the exit-call handler ECH: whether stop is registered
    lock,         \* SingletonABCMeta._lock: the thread that holds it, or "free"
    instances,    \* SingletonABCMeta._instances: per class, the object stored (0: none)
    made,         \* the number of objects created so far; an object is known by its number
    win,          \* per window class, the fields of its latest object
    layouts,      \* per window class, whether its LAYOUT object is built
    wt,           \* per thread: position in the GUI code and locals
    call          \* the call made on the device binding or the collection in the last step

monitorVars == <<running, lastState, cycles, startTime, stopTime, now, sensor,
                 animating, display, thr, outcome, runs, round>>
deviceVars == <<controller, dev>>
eventVars == <<events>>
guardVars == <<ech>>
guiVars == <<lock, instances, made, win, layouts, wt>>

vars == <<monitorVars, deviceVars, eventVars, guardVars, guiVars, call>>

\* What the steps of one part of the program leave alone.
allButMonitor == <<deviceVars, eventVars, guardVars, guiVars, call>>
allButDevice == <<monitorVars, eventVars, guardVars, guiVars>>
allButEvents == <<monitorVars, deviceVars, guardVars, guiVars>>
allButGui == <<monitorVars, deviceVars, eventVars, guardVars>>

monitorFields == <<running, lastState, cycles, startTime, stopTime>>
environment == <<now, sensor, animating>>


\* ------------------------------------------------------- values and helpers
Bool3(x) == IF x = "Plugged" THEN TRUE ELSE FALSE

\* A routing step's record: what the handler saw at its guard and what it did;
\* a stop() call lists in ops what it has done so far.
NoRec == [anim |-> FALSE, edge |-> FALSE, held |-> FALSE, ops |-> <<>>]

IdleThread == [pc |-> "idle", state |-> "unplugged", without |-> FALSE,
               cyc |-> 0, rec |-> NoRec]

Ok(op) == [op |-> op, err |-> ""]
NoCall == Ok("none")
Fail(op, err) == [op |-> op, err |-> err]

Has(ops, x) == \E i \in 1..Len(ops) : ops[i] = x

\* events.py event_to_bool: 'on', 'true', 'plugged' mean True; 'off', 'false',
\* 'unplugged' mean False; anything else is a ValueError.
event_to_bool(event) ==
    IF event \in {"on", "true", "plugged"} THEN "True"
    ELSE IF event \in {"off", "false", "unplugged"} THEN "False"
    ELSE "ValueError"

\* monitor.py plugged_in: the sensor's reading at the moment of the call.
plugged_in == sensor

\* monitor.py unplugged
unplugged == ~plugged_in

\* The state string run() routes (line 339).
SampleState == IF plugged_in THEN "plugged" ELSE "unplugged"

\* --------------------------------------------------- device binding values
\* Raw device handles (ListPortInfo objects).
Devices == {"p1", "p2", "p3"}

\* LEDMatrixController(device): a controller built by the monitor.
Built(device) == [obj |-> "built", device |-> device]

\* No call on the device binding or the collection in this step.
NoApi == [op |-> "none", arg |-> "", err |-> ""]

\* ------------------------------------------------------------ GUI values
\* The window classes: MainWindow, which overrides run() and handle_event(),
\* and a concrete subclass of WindowBase that inherits both.
WinClasses == {"MainWindow", "PlainWindow"}

\* The classes of SingletonABCMeta: the windows and a Layout subclass.
Classes == WinClasses \cup {"Layout"}

\* windows/base.py lines 32-44: the fields of a window object as __init__
\* sets them; window is "none" (None), "open" or "closed" (a psg.Window that
\* has been closed, still a true value); stops counts the executions of
\* stop() since the latest start().
NewWindow(ab, ar) ==
    [auto_build |-> ab, auto_run |-> ar, initialized |-> FALSE,
     running |-> FALSE, window |-> "none", layout |-> FALSE, stops |-> 0]

\* A thread outside the GUI's code; ret is what its latest construction call
\* returned.
WIdle == [pc |-> "idle", cls |-> "", ctor |-> FALSE, obj |-> 0, ret |-> 0,
          ev |-> "", ab |-> FALSE, ar |-> FALSE]

\* ------------------------------------------------------------------- Init
\* The monitor as constructed by PowerMonitor(controller): set_device has
\* bound a controller built on the given controller's device.
Init ==
    /\ controller = Built("p1")
    /\ dev = "p1"
    /\ events = <<>>
    /\ call = NoApi
    /\ ech = "empty"
    /\ lock = "free"
    /\ instances = [c \in Classes |-> 0]
    /\ made = 0
    /\ win = [c \in WinClasses |-> NewWindow(FALSE, FALSE)]
    /\ layouts = [c \in WinClasses |-> FALSE]
    /\ wt = [t \in Clients |-> WIdle]
    /\ running = FALSE
    /\ lastState = "Unknown"
    /\ cycles = 0
    /\ startTime = None
    /\ stopTime = None
    /\ now = 0
    /\ sensor \in BOOLEAN
    /\ animating = FALSE
    /\ display = "none"
    /\ thr = [t \in Threads |-> IdleThread]
    /\ outcome = NoCall
    /\ runs = [val |-> "none", n |-> 0]
    /\ round = [startAt |-> None, stopAt |-> None]

\* ------------------------------------------------------------ environment
Tick ==
    /\ now < MaxTime
    /\ now' = now + 1
    /\ outcome' = NoCall
    /\ UNCHANGED <<monitorFields, sensor, animating, display, thr, runs, round>>
    /\ UNCHANGED allButMonitor

SensorChange ==
    /\ sensor' = ~sensor
    /\ outcome' = NoCall
    /\ UNCHANGED <<monitorFields, now, animating, display, thr, runs, round>>
    /\ UNCHANGED allButMonitor

AnimChange ==
    /\ animating' = ~animating
    /\ outcome' = NoCall
    /\ UNCHANGED <<monitorFields, now, sensor, display, thr, runs, round>>
    /\ UNCHANGED allButMonitor

\* ---------------------------------------------------------------- start()
\* Mutant: start() without its guard.
StartRefused_M == FALSE

\* monitor.py start, line 389: the guard that refuses a second start.
StartRefused == running

\* The exception start() raises on a running monitor (line 391).
StartError == "RuntimeError"

\* Lines 386-395: refuse, or set _running and __start_time.
start(t, threaded) ==
    /\ t \in Clients
    /\ thr[t].pc = "idle"
    /\ IF StartRefused
       THEN /\ outcome' = Fail("start", StartError)
            /\ UNCHANGED <<monitorFields, environment, display, thr,
                           runs, round>>
       ELSE /\ threaded => thr["worker"].pc = "idle"
            /\ running' = TRUE
            /\ startTime' = now
            /\ round' = [round EXCEPT !.startAt = now]
            /\ thr' = [thr EXCEPT ![t].pc = IF threaded THEN "spawn" ELSE "enter"]
            /\ outcome' = Ok("start")
            /\ UNCHANGED <<lastState, cycles, stopTime, environment,
                           display, runs>>
    /\ UNCHANGED allButMonitor

\* Lines 397-400: the worker thread is started on run() and stop is registered
\* with the exit-call handler; the caller goes on to line 403.
Spawn(t) ==
    /\ thr[t].pc = "spawn"
    /\ thr' = [thr EXCEPT ![t].pc = "enter", !["worker"].pc = "enter"]
    /\ ech' = "registered"
    /\ outcome' = NoCall
    /\ UNCHANGED <<monitorFields, environment,
                   display, runs, round>>
    /\ UNCHANGED <<deviceVars, eventVars, guiVars, call>>

\* ------------------------------------------------------------------ run()
\* Lines 331-333: run() refuses to run a monitor whose flag is not set.
Enter(t) ==
    /\ thr[t].pc = "enter"
    /\ IF ~running
       THEN /\ thr' = [thr EXCEPT ![t] = IdleThread]
            /\ outcome' = IF t \in Clients THEN Fail("run", "RuntimeError") ELSE NoCall
       ELSE /\ thr' = [thr EXCEPT ![t].pc = "test"]
            /\ outcome' = NoCall
    /\ UNCHANGED <<monitorFields, environment, display, runs, round>>
    /\ UNCHANGED allButMonitor

\* Lines 337-341: the loop condition, the sample, and the call of handle_event.
LoopTest(t) ==
    /\ thr[t].pc = "test"
    /\ IF ~running
       THEN thr' = [thr EXCEPT ![t] = IdleThread]
       ELSE /\ cycles < MaxCycles
            /\ thr' = [thr EXCEPT ![t].pc = "guard", ![t].state = SampleState,
                                  ![t].rec = NoRec]
    /\ outcome' = NoCall
    /\ UNCHANGED <<monitorFields, environment, display, round>>
    /\ UNCHANGED allButMonitor

\* Mutant: the plugged handler's guard without the animation test.
PluggedGuard_M ==
    plugged_in /\ (lastState # "Plugged" \/ lastState = "Unknown")

\* events.py line 58: the guard of __handle_device_plugged_in.
PluggedGuard ==
    plugged_in /\ ~animating /\ (lastState # "Plugged" \/ lastState = "Unknown")

\* events.py line 66: the guard of __handle_device_unplugged.
UnpluggedGuard ==
    unplugged /\ ~animating /\ (lastState = "Plugged" \/ lastState = "Unknown")

\* Mutant: the unplugged handler's draw_percentage call inside the guarded block.
AfterGuard_M(event, held) == IF held THEN "notify" ELSE "after"

\* Where a handler goes from its guard: into the guarded block (lines 59-61,
\* 67-69) when the guard held; otherwise the plugged handler returns and the
\* unplugged handler goes to its draw_percentage call (line 71), which is
\* outside the guarded block.
AfterGuard(event, held) ==
    IF held THEN "notify"
    ELSE IF event = "True" THEN "after"
    ELSE "draw"

\* events.py handle_event lines 80-87 and the handlers' guards.
Guard(t) ==
    /\ thr[t].pc = "guard"
    /\ LET event == event_to_bool(thr[t].state)
           held == IF event = "True" THEN PluggedGuard ELSE UnpluggedGuard
           edge == lastState # (IF event = "True" THEN "Plugged" ELSE "Unplugged")
           rec == [anim |-> animating, edge |-> edge, held |-> held, ops |-> <<>>]
       IN  thr' = [thr EXCEPT ![t].rec = rec, ![t].pc = AfterGuard(event, held)]
    /\ outcome' = NoCall
    /\ UNCHANGED <<monitorFields, environment, display, runs, round>>
    /\ UNCHANGED allButMonitor

\* Mutant: notify() without the "not yet checked" return of lines 302-304.
NotifyPlays_M(which) ==
    \/ which = "plugged" /\ ~Bool3(lastState)
    \/ which = "unplugged" /\ Bool3(lastState)

\* monitor.py notify lines 302-315: whether notify(which) plays its sound.
NotifyPlays(which) ==
    /\ lastState # "Unknown"
    /\ \/ which = "plugged" /\ ~Bool3(lastState)
       \/ which = "unplugged" /\ Bool3(lastState)

\* events.py lines 59 and 67: pm.notify('plugged') / pm.notify('unplugged').
Notify(t) ==
    /\ thr[t].pc = "notify"
    /\ thr' = [thr EXCEPT ![t].pc = "clear",
                          ![t].rec.ops = IF NotifyPlays(thr[t].state)
                                         THEN Append(@, "play") ELSE @]
    /\ outcome' = NoCall
    /\ UNCHANGED <<monitorFields, environment, display, round>>
    /\ UNCHANGED allButMonitor

\* events.py lines 60 and 68: pm.controller.clear().
Clear(t) ==
    /\ thr[t].pc = "clear"
    /\ display' = "clear"
    /\ thr' = [thr EXCEPT ![t].pc = "write", ![t].rec.ops = Append(@, "clear")]
    /\ outcome' = NoCall
    /\ UNCHANGED <<monitorFields, environment, runs, round>>
    /\ UNCHANGED allButMonitor

\* Mutant: the plugged handler draws the percentage as the unplugged one does.
AfterWrite_M(state) == "draw"

\* Where a handler goes after writing _last_state: only the unplugged handler
\* has a draw_percentage call (events.py line 71).
AfterWrite(state) == IF state = "plugged" THEN "after" ELSE "draw"

\* events.py lines 61 and 69: pm._last_state = True / False.
Write(t) ==
    /\ thr[t].pc = "write"
    /\ lastState' = IF thr[t].state = "plugged" THEN "Plugged" ELSE "Unplugged"
    /\ thr' = [thr EXCEPT ![t].pc = AfterWrite(thr[t].state),
                          ![t].rec.ops = Append(@, "write")]
    /\ outcome' = NoCall
    /\ UNCHANGED <<running, cycles, startTime, stopTime, environment,
                   display, runs, round>>
    /\ UNCHANGED allButMonitor

\* events.py line 71: pm.controller.draw_percentage(get_battery_percentage()).
Draw(t) ==
    /\ thr[t].pc = "draw"
    /\ display' = "draw"
    /\ thr' = [thr EXCEPT ![t].pc = "after", ![t].rec.ops = Append(@, "draw")]
    /\ outcome' = NoCall
    /\ UNCHANGED <<monitorFields, environment, runs, round>>
    /\ UNCHANGED allButMonitor

\* Mutant: run() without the exit test of lines 343-346.
After_M(t) ==
    /\ thr[t].pc = "after"
    /\ thr' = [thr EXCEPT ![t].pc = "inc", ![t].cyc = cycles]
    /\ outcome' = NoCall
    /\ UNCHANGED <<monitorFields, environment, display, runs, round>>
    /\ UNCHANGED allButMonitor

\* Mutant: the exit test of lines 343-346 without the clear of line 345.
After_NoClear(t) ==
    /\ thr[t].pc = "after"
    /\ IF ~running
       THEN thr' = [thr EXCEPT ![t] = IdleThread]
       ELSE thr' = [thr EXCEPT ![t].pc = "inc", ![t].cyc = cycles]
    /\ outcome' = NoCall
    /\ UNCHANGED <<monitorFields, environment, display, runs, round>>
    /\ UNCHANGED allButMonitor

\* monitor.py lines 343-348: the exit test after routing, then the read of
\* __cycles for the increment.
After(t) ==
    /\ thr[t].pc = "after"
    /\ IF ~running
       THEN /\ display' = "clear"
            /\ thr' = [thr EXCEPT ![t] = IdleThread]
       ELSE /\ thr' = [thr EXCEPT ![t].pc = "inc", ![t].cyc = cycles]
            /\ UNCHANGED display
    /\ outcome' = NoCall
    /\ UNCHANGED <<monitorFields, environment, runs, round>>
    /\ UNCHANGED allButMonitor

\* Lines 348-356: the store of self.__cycles += 1, then sleep(); the thread
\* is next at the loop condition.
Inc(t) ==
    /\ thr[t].pc = "inc"
    /\ cycles' = thr[t].cyc + 1
    /\ thr' = [thr EXCEPT ![t].pc = "test", ![t].cyc = 0, ![t].rec = NoRec]
    /\ outcome' = NoCall
    /\ UNCHANGED <<running, lastState, startTime, stopTime, environment,
                   display, runs, round>>
    /\ UNCHANGED allButMonitor

\* ----------------------------------------------------------------- stop()
\* Mutant: stop() without its guard.
StopRefused_M == FALSE

\* monitor.py stop, line 419: the guard that refuses to stop an idle monitor.
StopRefused == ~running

\* Lines 419-423.
stop(t, without_salutation) ==
    /\ t \in Clients
    /\ thr[t].pc = "idle"
    /\ IF StopRefused
       THEN /\ outcome' = Fail("stop", "PowerMonitorNotRunningError")
            /\ UNCHANGED thr
       ELSE /\ thr' = [thr EXCEPT ![t].pc = "stopStamp",
                                  ![t].without = without_salutation]
            /\ outcome' = Ok("stop")
    /\ UNCHANGED <<monitorFields, environment, display, runs, round>>
    /\ UNCHANGED allButMonitor

\* Line 424: self.__stop_time = time.time().
StopStamp(t) ==
    /\ thr[t].pc = "stopStamp"
    /\ stopTime' = now
    /\ round' = [round EXCEPT !.stopAt = now]
    /\ thr' = [thr EXCEPT ![t].pc = "stopFlag", ![t].rec.ops = Append(@, "stamp")]
    /\ outcome' = NoCall
    /\ UNCHANGED <<running, lastState, cycles, startTime, environment,
                   display, runs>>
    /\ UNCHANGED allButMonitor

\* Mutant: stop() plays the farewell whatever without_salutation is.
AfterFlag_M(without_salutation) == "stopFarewell"

\* Lines 433-436: the farewell is played unless without_salutation is set.
AfterFlag(without_salutation) ==
    IF ~without_salutation THEN "stopFarewell" ELSE "stopClear"

\* Line 425: self.running = False, through the setter (lines 180-186).
StopFlag(t) ==
    /\ thr[t].pc = "stopFlag"
    /\ running' = FALSE
    /\ thr' = [thr EXCEPT ![t].pc = AfterFlag(thr[t].without),
                          ![t].rec.ops = Append(@, "flag")]
    /\ outcome' = NoCall
    /\ UNCHANGED <<lastState, cycles, startTime, stopTime, environment,
                   display, runs, round>>
    /\ UNCHANGED allButMonitor

\* Lines 433-434: goodbye_animation(self.dev).
StopFarewell(t) ==
    /\ thr[t].pc = "stopFarewell"
    /\ display' = "goodbye"
    /\ thr' = [thr EXCEPT ![t].pc = "stopClear", ![t].rec.ops = Append(@, "goodbye")]
    /\ outcome' = NoCall
    /\ UNCHANGED <<monitorFields, environment, runs, round>>
    /\ UNCHANGED allButMonitor

\* Lines 438-442: the test of controller.animating changes nothing (it
\* assigns True to a flag that is True); self.controller.clear() is called
\* whatever the flag is, and stop() returns.
StopClear(t) ==
    /\ thr[t].pc = "stopClear"
    /\ display' = "clear"
    /\ thr' = [thr EXCEPT ![t] = IdleThread]
    /\ outcome' = Ok("stopped")
    /\ UNCHANGED <<monitorFields, environment, runs, round>>
    /\ UNCHANGED allButMonitor

\* ------------------------------------------------------------- set_device
\* Controllers built by the caller, each on its device.
GivenControllers ==
    {[kind |-> "controller", obj |-> "cA", device |-> "p1"],
     [kind |-> "controller", obj |-> "cB", device |-> "p2"],
     [kind |-> "controller", obj |-> "cC", device |-> "p3"]}

\* What a caller may pass to set_device: a controller, a raw device handle,
\* or an object that is neither.
DeviceArgs ==
    GivenControllers
        \cup {[kind |-> "port", obj |-> d, device |-> d] : d \in Devices}
        \cup {[kind |-> "other", obj |-> "text", device |-> "none"]}

\* monitor.py lines 360-362: a controller argument is bound at once, before
\* the device is probed.
ControllerAfterTypeTest(arg) ==
    IF arg.kind = "controller" THEN [obj |-> arg.obj, device |-> arg.device]
    ELSE controller

\* Lines 360-367: the error set_device raises, "" when it binds.
SetDeviceError(arg, available) ==
    IF arg.kind = "other" THEN "TypeError"
    ELSE IF ~available THEN "ValueError"
    ELSE ""

\* monitor.py set_device (lines 358-370); available is the answer of
\* check_device for the device.  self.dev at line 370 is the device of the
\* controller bound at that moment (lines 87-89).
set_device(arg, available) ==
    /\ LET err == SetDeviceError(arg, available)
           bound == ControllerAfterTypeTest(arg)
       IN  /\ call' = [op |-> "set_device", arg |-> arg.obj, err |-> err]
           /\ IF err = "TypeError"
              THEN UNCHANGED <<controller, dev>>
              ELSE IF err = "ValueError"
              THEN controller' = bound /\ dev' = dev
              ELSE /\ dev' = arg.device
                   /\ controller' = Built(bound.device)
    /\ UNCHANGED allButDevice

\* ------------------------------------------------------- EventCollection
\* Keys a caller may use, in several letter cases, and Python's None.
RawKeys == {"foo", "FOO", "bar"}
NoKey == "<None>"

\* str.upper() and str.lower() on the keys in use.
Upper(k) ==
    IF k \in {"foo", "FOO"} THEN "FOO"
    ELSE IF k \in {"bar", "BAR"} THEN "BAR"
    ELSE k

Lower(k) ==
    IF k \in {"foo", "FOO"} THEN "foo"
    ELSE IF k \in {"bar", "BAR"} THEN "bar"
    ELSE k

\* event.py Event.__init__ (lines 25-58) and the key setters: the error the
\* construction of an event raises.  window is a required parameter (line
\* 28); self.key = key (line 53) goes to the key setter of the instance's
\* class, which for ExitEvent always raises (lines 220-222) and for Event
\* refuses a key that is not a string (lines 160-161).
EventInitError(cls, key, window) ==
    IF ~window THEN "TypeError"
    ELSE IF cls = "ExitEvent" THEN "ValueError"
    ELSE IF key = NoKey THEN "TypeError"
    ELSE ""

\* event.py lines 213-214: ExitEvent.__init__ calls Event.__init__ with the
\* key alone.
ExitEventInitError == EventInitError("ExitEvent", NoKey, FALSE)

\* A constructed Event: its key is stored in upper case (line 163), its
\* counters are 0 (lines 48, 51).
NewEvent(key, cb) ==
    [key |-> Upper(key), exit |-> FALSE, cb |-> cb, handled |-> 0, failed |-> 0]

\* A constructed ExitEvent, whose key is None (lines 216-218).
NewExitEvent ==
    [key |-> NoKey, exit |-> TRUE, cb |-> FALSE, handled |-> 0, failed |-> 0]

\* collection.py lines 35-37.
event_names == {events[i].key : i \in 1..Len(events)}

\* collection.py lines 43-56.
exit_event_exists == \E i \in 1..Len(events) : events[i].exit

\* Mutant: add_event without the test for an existing key.
AddEventError_M(isEvent, key) == IF ~isEvent THEN "TypeError" ELSE ""

\* collection.py lines 94-98: the error add_event raises, "" when it appends.
AddEventError(isEvent, key) ==
    IF ~isEvent THEN "TypeError"
    ELSE IF key \in event_names THEN "EventExistsError"
    ELSE ""

\* What a caller may pass to add_event: an Event it has constructed with a
\* window and a string key, or an object that is not an Event.
EventArgs ==
    [isEvent : {TRUE}, key : RawKeys, cb : BOOLEAN]
        \cup {[isEvent |-> FALSE, key |-> "text", cb |-> FALSE]}

\* collection.py add_event (lines 93-100).
add_event(arg) ==
    /\ LET e == NewEvent(arg.key, arg.cb)
           err == AddEventError(arg.isEvent, e.key)
       IN  /\ err = "" => Len(events) < MaxEvents
           /\ call' = [op |-> "add_event", arg |-> arg.key, err |-> err]
           /\ events' = IF err = "" THEN Append(events, e) ELSE events
    /\ UNCHANGED allButEvents

\* Mutant: create_event tests the key as given, in its own letter case.
CreateEventError_M(key) ==
    IF key = NoKey
    THEN IF exit_event_exists THEN "EventExistsError"
         ELSE IF ExitEventInitError # "" THEN ExitEventInitError
         ELSE AddEventError(TRUE, NoKey)
    ELSE IF key \in event_names THEN "EventExistsError"
         ELSE IF EventInitError("Event", Upper(key), FALSE) # ""
              THEN EventInitError("Event", Upper(key), FALSE)
         ELSE AddEventError(TRUE, Upper(key))

\* collection.py lines 107-118: the error create_event raises, "" when it
\* adds an event.  The events are constructed without a window (lines 111
\* and 118).
CreateEventError(key) ==
    IF key = NoKey
    THEN IF exit_event_exists THEN "EventExistsError"
         ELSE IF ExitEventInitError # "" THEN ExitEventInitError
         ELSE AddEventError(TRUE, NoKey)
    ELSE IF Upper(key) \in event_names THEN "EventExistsError"
         ELSE IF EventInitError("Event", Upper(key), FALSE) # ""
              THEN EventInitError("Event", Upper(key), FALSE)
         ELSE AddEventError(TRUE, Upper(key))

\* collection.py create_event (lines 106-118).
create_event(key, cb) ==
    /\ LET err == CreateEventError(key)
           e == IF key = NoKey THEN NewExitEvent ELSE NewEvent(key, cb)
       IN  /\ err = "" => Len(events) < MaxEvents
           /\ call' = [op |-> "create_event", arg |-> key, err |-> err]
           /\ events' = IF err = "" THEN Append(events, e) ELSE events
    /\ UNCHANGED allButEvents

\* collection.py lookup (lines 148-150): the position of the first event
\* whose key equals event_key in lower case, 0 for None.
lookup(event_key) ==
    IF \E i \in 1..Len(events) : Lower(events[i].key) = Lower(event_key)
    THEN CHOOSE i \in 1..Len(events) :
            /\ Lower(events[i].key) = Lower(event_key)
            /\ \A j \in 1..(i - 1) : Lower(events[j].key) # Lower(event_key)
    ELSE 0

\* collection.py line 149: the generator evaluates e.key.lower() on every
\* event up to the first match; the key of an ExitEvent is None (event.py
\* lines 216-218), on which .lower() raises AttributeError.
LookupRaises(event_key) ==
    IF \E i \in 1..Len(events) :
          /\ events[i].key = NoKey
          /\ \A j \in 1..(i - 1) : Lower(events[j].key) # Lower(event_key)
    THEN "AttributeError"
    ELSE ""

\* What a call of the callback may do: return, raise an Exception, or raise
\* a BaseException that is not an Exception (SystemExit, KeyboardInterrupt).
CallbackResults == {"returns", "raises", "exits"}

\* Mutant: handle counts no failure.
CountsFailure_M(result) == FALSE

\* event.py lines 200-204: the except clause is 'except Exception'.
CountsFailure(result) == result = "raises"

\* Mutant: handle counts the call after the callback has returned.
AfterHandle_M(e, result) ==
    [e EXCEPT !.handled = IF e.cb /\ result # "returns" THEN @ ELSE @ + 1,
              !.failed = IF e.cb /\ CountsFailure(result) THEN @ + 1 ELSE @]

\* event.py Event.handle (lines 179-206): the event after the call.
AfterHandle(e, result) ==
    [e EXCEPT !.handled = @ + 1,
              !.failed = IF e.cb /\ CountsFailure(result) THEN @ + 1 ELSE @]

\* The error that leaves Event.handle: the callback's own (line 204).
HandleError(e, result) ==
    IF ~e.cb \/ result = "returns" THEN ""
    ELSE IF result = "raises" THEN "CallbackError"
    ELSE "SystemExit"

\* collection.py handle_event (lines 120-127).
handle_event(key, result) ==
    /\ LET i == lookup(key)
       IN  IF LookupRaises(key) # ""
           THEN /\ call' = [op |-> "handle_event", arg |-> key,
                            err |-> LookupRaises(key)]
                /\ UNCHANGED events
           ELSE IF i = 0
           THEN /\ call' = [op |-> "handle_event", arg |-> key,
                            err |-> "EventLookupError"]
                /\ UNCHANGED events
           ELSE /\ events[i].handled < MaxHandled
                /\ call' = [op |-> "handle_event", arg |-> key,
                            err |-> HandleError(events[i], result)]
                /\ events' = [events EXCEPT ![i] = AfterHandle(@, result)]
    /\ UNCHANGED allButEvents

\* collection.py clear (lines 102-104).
clear ==
    /\ events' = <<>>
    /\ call' = [op |-> "clear", arg |-> "", err |-> ""]
    /\ UNCHANGED allButEvents

\* ---------------------------------------------------------- sensor failure
\* What psutil.sensors_battery() may do instead of returning battery
\* information: return None (no battery in the machine) or raise.
FailedReads == {"NoBattery", "raises"}

\* helpers.py lines 37-42: check_plugged_in and get_battery_percentage take
\* the attribute of whatever sensors_battery() returned and catch nothing.
ReadError(info) ==
    IF info = "NoBattery" THEN "AttributeError"
    ELSE IF info = "raises" THEN "psutil.Error"
    ELSE ""

\* monitor.py line 339: the sample fails; nothing in run() or start() catches
\* the error, so the thread leaves the loop with it.
SampleFails(t, info) ==
    /\ thr[t].pc = "test"
    /\ running
    /\ thr' = [thr EXCEPT ![t] = IdleThread]
    /\ outcome' = Fail("sample", ReadError(info))
    /\ UNCHANGED <<monitorFields, environment, display, runs, round>>
    /\ UNCHANGED allButMonitor

\* events.py lines 58 and 66: the read of the sensor in a handler's guard fails.
GuardFails(t, info) ==
    /\ thr[t].pc = "guard"
    /\ thr' = [thr EXCEPT ![t] = IdleThread]
    /\ outcome' = Fail("sample", ReadError(info))
    /\ UNCHANGED <<monitorFields, environment, display, runs, round>>
    /\ UNCHANGED allButMonitor

\* events.py line 71: get_battery_percentage() fails, before draw_percentage
\* is called.
DrawFails(t, info) ==
    /\ thr[t].pc = "draw"
    /\ thr' = [thr EXCEPT ![t] = IdleThread]
    /\ outcome' = Fail("percent", ReadError(info))
    /\ UNCHANGED <<monitorFields, environment, display, runs, round>>
    /\ UNCHANGED allButMonitor

\* --------------------------------------------------------- running setter
\* Values a client may assign to pm.running: the two booleans, a truthy value
\* that is not a bool (1) and a falsy one (0).
SetterValues == {"True", "False", "1", "0"}

Truthy(new) == new \in {"True", "1"}

IsBool(new) == new \in {"True", "False"}

\* monitor.py lines 180-184: the error the setter raises, "" when it assigns.
SetterError(new) ==
    IF ~running /\ Truthy(new) THEN "RuntimeError"
    ELSE IF ~IsBool(new) THEN "TypeError"
    ELSE ""

\* The name under which an assignment is reported in outcome.
SetOp(new) ==
    IF new = "True" THEN "setTrue"
    ELSE IF new = "False" THEN "setFalse"
    ELSE IF new = "1" THEN "set1"
    ELSE "set0"

\* pm.running = new by a client (lines 161-186).
set_running(t, new) ==
    /\ t \in Clients
    /\ thr[t].pc = "idle"
    /\ outcome' = [op |-> SetOp(new), err |-> SetterError(new)]
    /\ running' = IF SetterError(new) = "" THEN Truthy(new) ELSE running
    /\ UNCHANGED <<lastState, cycles, startTime, stopTime, environment,
                   display, thr, runs, round>>
    /\ UNCHANGED allButMonitor

\* ------------------------------------------------------ KeyboardInterrupt
\* The positions of a thread inside the while loop of run() (lines 337-356).
InLoop == {"test", "guard", "notify", "clear", "write", "draw", "after", "inc"}

\* The positions of a thread inside self.run() as called at line 403.
InRun == InLoop \cup {"enter"}

\* monitor.py lines 402-406: a KeyboardInterrupt raised in the thread that is
\* inside self.run() is caught by start(), which calls
\* stop(without_salutation=True); stop() begins with its guard (line 419) and
\* its PowerMonitorNotRunningError is raised out of the except block.
Interrupt(t) ==
    /\ t \in Clients
    /\ thr[t].pc \in InRun
    /\ IF StopRefused
       THEN /\ thr' = [thr EXCEPT ![t] = IdleThread]
            /\ outcome' = Fail("interrupt", "PowerMonitorNotRunningError")
       ELSE /\ thr' = [thr EXCEPT ![t] = [IdleThread EXCEPT !.pc = "stopStamp",
                                                           !.without = TRUE]]
            /\ outcome' = Ok("interrupt")
    /\ UNCHANGED <<monitorFields, environment, display, runs, round>>
    /\ UNCHANGED allButMonitor

\* -------------------------------------------------- singletons and windows
\* What window.read(timeout=100) returns as the event: the timeout key, None
\* when the user has closed the window, the key of the Exit button, the key
\* of another element.
WinEvents == {"__TIMEOUT__", NoKey, "EXIT_BTTN", "BRIGHTNESS_SLIDER"}

\* Values assigned to auto_build and auto_run: the booleans and an int.
AutoValues == {"True", "False", "1"}

\* An error leaves the call thread t is in.  Inside a construction call it
\* leaves __init__ and SingletonABCMeta.__call__ too: the with statement
\* (metaclasses line 16) releases the lock and line 19 is not reached.
Raise(t, c, op, err) ==
    /\ call' = [op |-> IF wt[t].ctor THEN "construct" ELSE op,
                arg |-> c, err |-> err]
    /\ wt' = [wt EXCEPT ![t] = WIdle]
    /\ lock' = IF wt[t].ctor THEN "free" ELSE lock

\* A call that is not part of a construction returns without error.
Return(t, c, op) ==
    /\ call' = [op |-> op, arg |-> c, err |-> ""]
    /\ wt' = [wt EXCEPT ![t] = [WIdle EXCEPT !.ret = wt[t].ret]]
    /\ UNCHANGED lock

\* A thread calls cls(title, skip_auto_build, skip_auto_run): it arrives at
\* the with statement of SingletonABCMeta.__call__ (line 16).
singleton_call(t, c, skip_auto_build, skip_auto_run) ==
    /\ wt[t].pc = "idle"
    /\ made + Cardinality({u \in Clients : wt[u].pc \in {"lock", "check"}}) < MaxMade
    /\ wt' = [wt EXCEPT ![t] = [WIdle EXCEPT !.pc = "lock", !.cls = c,
                                             !.ctor = TRUE,
                                             !.ab = ~skip_auto_build,
                                             !.ar = ~skip_auto_run]]
    /\ call' = NoApi
    /\ UNCHANGED <<lock, instances, made, win, layouts>>
    /\ UNCHANGED allButGui

\* Mutant: the with statement takes the lock whether it is free or not.
LockFree_M == TRUE

\* threading.Lock: acquire() goes through when no thread holds the lock.
LockFree == lock = "free"

\* metaclasses line 16: with SingletonABCMeta._lock.
Acquire(t) ==
    /\ wt[t].pc = "lock"
    /\ LockFree
    /\ lock' = t
    /\ wt' = [wt EXCEPT ![t].pc = "check"]
    /\ call' = NoApi
    /\ UNCHANGED <<instances, made, win, layouts>>
    /\ UNCHANGED allButGui

\* metaclasses lines 17-20: the stored instance is returned and the lock
\* released, or super().__call__ creates a new object and calls __init__.
Check(t) ==
    /\ wt[t].pc = "check"
    /\ LET c == wt[t].cls
       IN  IF instances[c] # 0
           THEN /\ wt' = [wt EXCEPT ![t] = [WIdle EXCEPT !.ret = instances[c]]]
                /\ lock' = "free"
                /\ call' = [op |-> "construct", arg |-> c, err |-> ""]
                /\ UNCHANGED made
           ELSE /\ made' = made + 1
                /\ wt' = [wt EXCEPT ![t].pc = "init", ![t].obj = made + 1]
                /\ call' = NoApi
                /\ UNCHANGED lock
    /\ UNCHANGED <<instances, win, layouts>>
    /\ UNCHANGED allButGui

\* windows/base.py lines 70-76 and 84-90: the error an assignment to
\* auto_build or auto_run raises, "" when it is accepted.
AutoSetterError(initialized, new) ==
    IF initialized THEN "RuntimeError"
    ELSE IF new \notin {"True", "False"} THEN "TypeError"
    ELSE ""

\* windows/base.py __init__ (lines 32-46) up to the call of __post_init__,
\* whose first test (line 49) decides whether build() is called; the
\* __init__ of a Layout (layout/base.py lines 46-53) sets fields only.
WindowInit(t) ==
    /\ wt[t].pc = "init"
    /\ LET c == wt[t].cls
       IN  IF c \in WinClasses
           THEN /\ win' = [win EXCEPT ![c] = NewWindow(wt[t].ab, wt[t].ar)]
                /\ wt' = [wt EXCEPT ![t].pc = IF wt[t].ab THEN "build"
                                              ELSE "store",
                                      ![t].ab = FALSE, ![t].ar = FALSE]
           ELSE /\ wt' = [wt EXCEPT ![t].pc = "store"]
                /\ UNCHANGED win
    /\ call' = NoApi
    /\ UNCHANGED <<lock, instances, made, layouts>>
    /\ UNCHANGED allButGui

\* metaclasses lines 19-20: the new object is stored and returned; the with
\* statement releases the lock.
Store(t) ==
    /\ wt[t].pc = "store"
    /\ instances' = [instances EXCEPT ![wt[t].cls] = wt[t].obj]
    /\ lock' = "free"
    /\ wt' = [wt EXCEPT ![t] = [WIdle EXCEPT !.ret = wt[t].obj]]
    /\ call' = [op |-> "construct", arg |-> wt[t].cls, err |-> ""]
    /\ UNCHANGED <<made, win, layouts>>
    /\ UNCHANGED allButGui

\* A thread calls build(), start() or stop() on the stored window.
WindowOps == {"build", "start", "stop"}

window_call(t, c, op) ==
    /\ wt[t].pc = "idle"
    /\ instances[c] # 0
    /\ wt' = [wt EXCEPT ![t] = [WIdle EXCEPT !.pc = op, !.cls = c,
                                             !.ret = wt[t].ret]]
    /\ call' = NoApi
    /\ UNCHANGED <<lock, instances, made, win, layouts>>
    /\ UNCHANGED allButGui

\* windows/base.py lines 92-97.
built(c) == win[c].layout /\ win[c].window # "none"

\* windows/base.py lines 264-266 and layout/base.py lines 105-107: the error
\* build() raises; the LAYOUT object belongs to the class and is built once.
BuildError(c) ==
    IF built(c) THEN "RuntimeError"
    ELSE IF layouts[c] THEN "LayoutAlreadyBuiltError"
    ELSE ""

\* windows/base.py build (lines 263-270); in __post_init__ it is followed by
\* the test of auto_run (line 51).
window_build(t) ==
    /\ wt[t].pc = "build"
    /\ LET c == wt[t].cls
       IN  IF BuildError(c) # ""
           THEN /\ Raise(t, c, "build", BuildError(c))
                /\ UNCHANGED <<win, layouts>>
           ELSE /\ layouts' = [layouts EXCEPT ![c] = TRUE]
                /\ win' = [win EXCEPT ![c].layout = TRUE, ![c].window = "open"]
                /\ IF wt[t].ctor
                   THEN /\ wt' = [wt EXCEPT ![t].pc = IF win[c].auto_run
                                                     THEN "start" ELSE "store"]
                        /\ call' = NoApi
                        /\ UNCHANGED lock
                   ELSE Return(t, c, "build")
    /\ UNCHANGED <<instances, made>>
    /\ UNCHANGED allButGui

\* windows/base.py lines 309-313: the error start() raises at its guards.
WindowStartError(c) ==
    IF win[c].running THEN "RuntimeError"
    ELSE IF win[c].window = "none" THEN "RuntimeError"
    ELSE ""

\* windows/base.py start, lines 309-316: the guards, the flag, the call of
\* run().
window_start(t) ==
    /\ wt[t].pc = "start"
    /\ LET c == wt[t].cls
       IN  IF WindowStartError(c) # ""
           THEN /\ Raise(t, c, "start", WindowStartError(c))
                /\ UNCHANGED win
           ELSE /\ win' = [win EXCEPT ![c].running = TRUE, ![c].stops = 0]
                /\ wt' = [wt EXCEPT ![t].pc = "run"]
                /\ call' = NoApi
                /\ UNCHANGED lock
    /\ UNCHANGED <<instances, made, layouts>>
    /\ UNCHANGED allButGui

\* windows/base.py lines 292-296 and windows/main/__init__.py lines 53-57:
\* the error run() raises at its guards.
WindowRunError(c) ==
    IF ~built(c) THEN "RuntimeError"
    ELSE IF ~win[c].running THEN "RuntimeError"
    ELSE ""

window_run(t) ==
    /\ wt[t].pc = "run"
    /\ LET c == wt[t].cls
       IN  IF WindowRunError(c) # ""
           THEN Raise(t, c, "start", WindowRunError(c))
           ELSE /\ wt' = [wt EXCEPT ![t].pc = "loop"]
                /\ call' = NoApi
                /\ UNCHANGED lock
    /\ UNCHANGED <<instances, made, win, layouts>>
    /\ UNCHANGED allButGui

\* Where a thread is when the while loop of run() has ended: WindowBase.run
\* goes on to its own call of stop() (line 306); MainWindow.run returns to
\* start(), which calls stop() (line 317).
AfterLoop(c) == IF c = "MainWindow" THEN "startStop" ELSE "runStop"

\* windows/base.py lines 316-317: start() calls stop() when run() has returned.
AfterRun(t) == "startStop"

\* One pass of the while loop.  WindowBase.run (lines 298-304): the loop
\* test, the read, the break on None; handle_event (lines 285-289) calls
\* nothing.  MainWindow.run (main lines 63-77): the loop test, the read, and
\* handle_event (lines 38-50), which calls stop() for None and for the Exit
\* button.  A closed window reads as None.
window_read(t, event) ==
    /\ wt[t].pc = "loop"
    /\ LET c == wt[t].cls
       IN  /\ win[c].window = "closed" => event = NoKey
           /\ wt' = [wt EXCEPT ![t].pc =
                        IF ~win[c].running THEN AfterLoop(c)
                        ELSE IF c = "MainWindow"
                             THEN IF event \in {NoKey, "EXIT_BTTN"}
                                  THEN "handleStop" ELSE "loop"
                             ELSE IF event = NoKey THEN "runStop" ELSE "loop",
                                 ![t].ev = IF win[c].running THEN event ELSE ""]
    /\ call' = NoApi
    /\ UNCHANGED <<lock, instances, made, win, layouts>>
    /\ UNCHANGED allButGui

\* The positions at which a thread is about to execute stop(): called by a
\* client, by MainWindow.handle_event, by WindowBase.run, by start().
AtStop == {"stop", "handleStop", "runStop", "startStop"}

\* windows/base.py lines 320-321 and close(), lines 276-281: the error stop()
\* raises.
WindowStopError(c) ==
    IF ~win[c].running THEN "RuntimeError"
    ELSE IF win[c].window = "none" THEN "RuntimeError"
    ELSE ""

\* windows/base.py stop (lines 319-325) with close() (lines 275-283), and
\* where the caller goes on: MainWindow.run breaks after None (main line 76)
\* and otherwise returns to the loop test; WindowBase.run returns to start();
\* start() returns.
window_stop(t) ==
    /\ wt[t].pc \in AtStop
    /\ LET c == wt[t].cls
           op == IF wt[t].pc = "stop" THEN "stop" ELSE "start"
           next == IF wt[t].pc = "handleStop"
                   THEN IF wt[t].ev = NoKey THEN AfterLoop(c) ELSE "loop"
                   ELSE IF wt[t].pc = "runStop" THEN AfterRun(t)
                   ELSE IF wt[t].ctor THEN "store" ELSE "idle"
       IN  IF WindowStopError(c) # ""
           THEN /\ Raise(t, c, op, WindowStopError(c))
                /\ UNCHANGED win
           ELSE /\ win' = [win EXCEPT ![c].running = FALSE,
                                      ![c].window = "closed",
                                      ![c].stops = @ + 1]
                /\ IF next = "idle"
                   THEN Return(t, c, op)
                   ELSE /\ wt' = [wt EXCEPT ![t].pc = next, ![t].ev = ""]
                        /\ call' = NoApi
                        /\ UNCHANGED lock
    /\ UNCHANGED <<instances, made, layouts>>
    /\ UNCHANGED allButGui

\* windows/base.py lines 68-90: an assignment to auto_build or auto_run of
\* the stored window.
set_auto(t, c, which, new) ==
    /\ wt[t].pc = "idle"
    /\ instances[c] # 0
    /\ LET err == AutoSetterError(win[c].initialized, new)
       IN  /\ call' = [op |-> which, arg |-> c, err |-> err]
           /\ win' = IF err # "" THEN win
                     ELSE IF which = "auto_build"
                          THEN [win EXCEPT ![c].auto_build = (new = "True")]
                          ELSE [win EXCEPT ![c].auto_run = (new = "True")]
    /\ UNCHANGED <<lock, instances, made, layouts, wt>>
    /\ UNCHANGED allButGui

\* ------------------------------------------------------------ process exit
\* Mutant: the registered handler is stop() without its guard.
HookRefused_M == FALSE

\* monitor.py line 419, as met by the call the exit-call handler makes.
HookRefused == StopRefused

\* monitor.py line 400: the handler registered with ECH is self.stop with
\* kwargs reason='Program exited.', so without_salutation has its default,
\* False.  At process exit, when the main thread has left the program's
\* code, the exit-call handler calls it in the main thread, once for each
\* entry; the entries of one monitor are all the same call.
ExitHook(t) ==
    /\ t = "main"
    /\ thr[t].pc = "idle"
    /\ ech \in {"registered", "exiting"}
    /\ ech' = "exiting"
    /\ IF HookRefused
       THEN /\ outcome' = Fail("hook", "PowerMonitorNotRunningError")
            /\ UNCHANGED thr
       ELSE /\ thr' = [thr EXCEPT ![t].pc = "stopStamp", ![t].without = FALSE]
            /\ outcome' = Ok("hook")
    /\ UNCHANGED <<monitorFields, environment, display, runs, round>>
    /\ UNCHANGED <<deviceVars, eventVars, guiVars, call>>

\* --------------------------------------------------------------- run_time
\* Line 198: hasattr(self, 'start_time'); start_time is a property of the
\* class (lines 204-206), so the attribute always exists.
HasStartTime == TRUE

\* Line 201: hasattr(self, 'stop_time'); stop_time is a property too (208-223).
HasStopTime == TRUE

\* Mutant: run_time always measures up to the current time.
Recent_M == now

\* Line 201: the later end of the interval.
Recent == IF HasStopTime THEN stopTime ELSE now

\* Lines 198-202: the error run_time raises, "" when it returns a value.
RunTimeError ==
    IF ~HasStartTime THEN "PowerMonitorNotRunningError"
    ELSE IF Recent = None \/ startTime = None THEN "TypeError"
    ELSE ""

\* Line 202: recent - self.start_time.
RunTimeValue == Recent - startTime

run_time(t) ==
    /\ t \in Clients
    /\ thr[t].pc = "idle"
    /\ outcome' = [op |-> "run_time", err |-> RunTimeError]
    /\ UNCHANGED <<monitorFields, environment, display, thr, runs, round>>
    /\ UNCHANGED allButMonitor

\* ----------------------------------------------------- observing the runs
\* A sample that differs from the previous one opens a maximal run of
\* same-valued samples; a sound of the run's direction is counted in it.
LoopTestObserved(t) ==
    /\ LoopTest(t)
    /\ runs' = IF thr'[t].pc = "guard" /\ thr'[t].state # runs.val
               THEN [val |-> thr'[t].state, n |-> 0]
               ELSE runs

NotifyObserved(t) ==
    /\ Notify(t)
    /\ runs' = IF Has(thr'[t].rec.ops, "play") /\ thr[t].state = runs.val /\ runs.n < 2
               THEN [runs EXCEPT !.n = @ + 1]
               ELSE runs

LoopTestQuiet(t) == LoopTest(t) /\ UNCHANGED runs

NotifyQuiet(t) == Notify(t) /\ UNCHANGED runs

\* ------------------------------------------------------------------- Next
\* The steps of the threads inside the monitor's code, but for the two above.
Step(t) ==
    \/ Spawn(t)
    \/ Enter(t)
    \/ Guard(t)
    \/ Clear(t)
    \/ Write(t)
    \/ Draw(t)
    \/ After(t)
    \/ Inc(t)
    \/ StopStamp(t)
    \/ StopFlag(t)
    \/ StopFarewell(t)
    \/ StopClear(t)

\* The monitor in use as Scripts/app.py and the package use it: main owns the
\* monitor and starts it, another thread stops it; the sensor and the
\* display's animation change at any time.
Next ==
    \/ SensorChange
    \/ AnimChange
    \/ \E threaded \in BOOLEAN : start("main", threaded)
    \/ \E w \in BOOLEAN : stop("other", w)
    \/ \E t \in Threads : Step(t)
    \/ \E t \in Threads : LoopTestQuiet(t)
    \/ \E t \in Threads : NotifyQuiet(t)

Spec == Init /\ [][Next]_vars

\* The same, and the user may press Ctrl-C at any time, which Python raises as
\* KeyboardInterrupt in the main thread.
NextInterrupt ==
    \/ SensorChange
    \/ AnimChange
    \/ \E threaded \in BOOLEAN : start("main", threaded)
    \/ \E w \in BOOLEAN : stop("other", w)
    \/ Interrupt("main")
    \/ \E t \in Threads : Step(t)
    \/ \E t \in Threads : LoopTestQuiet(t)
    \/ \E t \in Threads : NotifyQuiet(t)

SpecInterrupt == Init /\ [][NextInterrupt]_vars

\* The same with the display idle throughout and the runs of samples observed.
NextIdle ==
    \/ SensorChange
    \/ \E threaded \in BOOLEAN : start("main", threaded)
    \/ \E w \in BOOLEAN : stop("other", w)
    \/ \E t \in Threads : Step(t)
    \/ \E t \in Threads : LoopTestObserved(t)
    \/ \E t \in Threads : NotifyObserved(t)

SpecIdle == Init /\ [][NextIdle]_vars

\* A thread's next step in the monitor's code.
ThreadStep(t) == Step(t) \/ LoopTestQuiet(t) \/ NotifyQuiet(t)

\* The monitor started by main and stopped by another thread, with a steady
\* sensor and an idle display.  Every thread that can take a step eventually
\* takes one: the scheduler runs every thread, sleep() returns after the
\* check interval, and the calls to the sensor, the display and the audio
\* return.
NextStop ==
    \/ \E threaded \in BOOLEAN : start("main", threaded)
    \/ \E w \in BOOLEAN : stop("other", w)
    \/ \E t \in Threads : Step(t)
    \/ \E t \in Threads : LoopTestQuiet(t)
    \/ \E t \in Threads : NotifyQuiet(t)

SpecStop == Init /\ [][NextStop]_vars /\ \A t \in Threads : WF_vars(ThreadStep(t))

\* The monitor in use with a sensor whose reads may fail.
NextSensor ==
    \/ SensorChange
    \/ \E threaded \in BOOLEAN : start("main", threaded)
    \/ \E w \in BOOLEAN : stop("other", w)
    \/ \E t \in Threads, info \in FailedReads : SampleFails(t, info)
    \/ \E t \in Threads, info \in FailedReads : GuardFails(t, info)
    \/ \E t \in Threads, info \in FailedReads : DrawFails(t, info)
    \/ \E t \in Threads : Step(t)
    \/ \E t \in Threads : LoopTestQuiet(t)
    \/ \E t \in Threads : NotifyQuiet(t)

SpecSensor == Init /\ [][NextSensor]_vars

\* The device binding of a constructed monitor, rebound by its owner.
NextDevice ==
    \E arg \in DeviceArgs, available \in BOOLEAN : set_device(arg, available)

SpecDevice == Init /\ [][NextDevice]_vars

\* An EventCollection in use by its window.
NextEvents ==
    \/ \E key \in RawKeys \cup {NoKey}, cb \in BOOLEAN : create_event(key, cb)
    \/ \E arg \in EventArgs : add_event(arg)
    \/ \E key \in RawKeys, result \in CallbackResults : handle_event(key, result)
    \/ clear

SpecEvents == Init /\ [][NextEvents]_vars

\* The lifecycle API under the clock: both client threads call start(), stop()
\* and run_time in any order while time passes; the sensor's reading is steady.
NextCalls ==
    \/ Tick
    \/ \E t \in Clients, threaded \in BOOLEAN : start(t, threaded)
    \/ \E t \in Clients, w \in BOOLEAN : stop(t, w)
    \/ \E t \in Clients : run_time(t)
    \/ \E t \in Threads : Step(t)
    \/ \E t \in Threads : LoopTestQuiet(t)
    \/ \E t \in Threads : NotifyQuiet(t)

SpecCalls == Init /\ [][NextCalls]_vars

\* The program from its start to its exit: the client threads call start()
\* and the other thread stop() while time passes; once the main thread is out of the monitor's
\* code the process may exit, after which no client calls any more and the
\* exit-call handler makes its calls.
NextExit ==
    \/ Tick
    \/ \E t \in Clients, threaded \in BOOLEAN :
          ech # "exiting" /\ start(t, threaded)
    \/ \E w \in BOOLEAN : ech # "exiting" /\ stop("other", w)
    \/ ExitHook("main")
    \/ \E t \in Threads : Step(t)
    \/ \E t \in Threads : LoopTestQuiet(t)
    \/ \E t \in Threads : NotifyQuiet(t)

SpecExit == Init /\ [][NextExit]_vars

\* The GUI with the main window: main and other construct the MainWindow and
\* a Layout and use the stored window, while the user acts on the open window.
NextGui ==
    \/ \E t \in Clients, c \in {"MainWindow", "Layout"} :
          \E sb \in BOOLEAN, sr \in BOOLEAN : singleton_call(t, c, sb, sr)
    \/ \E t \in Clients : Acquire(t)
    \/ \E t \in Clients : Check(t)
    \/ \E t \in Clients : WindowInit(t)
    \/ \E t \in Clients : Store(t)
    \/ \E t \in Clients, op \in WindowOps : window_call(t, "MainWindow", op)
    \/ \E t \in Clients : window_build(t)
    \/ \E t \in Clients : window_start(t)
    \/ \E t \in Clients : window_run(t)
    \/ \E t \in Clients, event \in WinEvents : window_read(t, event)
    \/ \E t \in Clients : window_stop(t)
    \/ \E t \in Clients, new \in AutoValues :
          \E which \in {"auto_build", "auto_run"} :
             set_auto(t, "MainWindow", which, new)

SpecGui == Init /\ [][NextGui]_vars

\* The same with a window class that inherits run() and handle_event() from
\* WindowBase.
NextPlain ==
    \/ \E t \in Clients, c \in {"PlainWindow", "Layout"} :
          \E sb \in BOOLEAN, sr \in BOOLEAN : singleton_call(t, c, sb, sr)
    \/ \E t \in Clients : Acquire(t)
    \/ \E t \in Clients : Check(t)
    \/ \E t \in Clients : WindowInit(t)
    \/ \E t \in Clients : Store(t)
    \/ \E t \in Clients, op \in WindowOps : window_call(t, "PlainWindow", op)
    \/ \E t \in Clients : window_build(t)
    \/ \E t \in Clients : window_start(t)
    \/ \E t \in Clients : window_run(t)
    \/ \E t \in Clients, event \in WinEvents : window_read(t, event)
    \/ \E t \in Clients : window_stop(t)
    \/ \E t \in Clients, new \in AutoValues :
          \E which \in {"auto_build", "auto_run"} :
             set_auto(t, "PlainWindow", which, new)

SpecPlain == Init /\ [][NextPlain]_vars

\* The lifecycle API with the running property assigned from outside: both
\* client threads call start() and stop() and assign to pm.running.
NextSetter ==
    \/ \E t \in Clients, threaded \in BOOLEAN : start(t, threaded)
    \/ \E t \in Clients, w \in BOOLEAN : stop(t, w)
    \/ \E t \in Clients, new \in SetterValues : set_running(t, new)
    \/ \E t \in Threads : Step(t)
    \/ \E t \in Threads : LoopTestQuiet(t)
    \/ \E t \in Threads : NotifyQuiet(t)

SpecSetter == Init /\ [][NextSetter]_vars

TypeOK ==
    /\ running \in BOOLEAN
    /\ lastState \in {"Unknown", "Plugged", "Unplugged"}
    /\ cycles \in Nat
    /\ startTime \in {None} \cup 0..MaxTime
    /\ stopTime \in {None} \cup 0..MaxTime
    /\ display \in {"none", "clear", "draw", "goodbye"}
    /\ ech \in {"empty", "registered", "exiting"}
    /\ lock \in {"free"} \cup Clients
    /\ made \in 0..MaxMade
    /\ \A c \in Classes : instances[c] \in 0..made
    /\ \A c \in WinClasses : win[c].window \in {"none", "open", "closed"}

\* ----------------------------------------------------------------- claims
\* The value lastState takes for a routed state string.
StateOf(state) == IF state = "plugged" THEN "Plugged" ELSE "Unplugged"

Opposite(state) == IF state = "plugged" THEN "Unplugged" ELSE "Plugged"

\* A thread whose routing step has ended (it is at the loop's exit test or at
\* the increment that follows it).
StepEnded(t) == thr[t].pc \in {"after", "inc"}

\* C1: with the display idle, the notification of a direction is played at
\* most once in a maximal run of same-valued samples.
C1_AtMostOncePerRun == runs.n <= 1

\* C2: a sound is played only in a state where lastState is known and is the
\* opposite of the announced direction; in particular the first sample
\* (lastState Unknown) plays nothing.
C2_SoundOnlyOnOppositeState ==
    [][\A t \in Threads :
          (thr[t].pc = "notify" /\ Has(thr'[t].rec.ops, "play"))
              => (lastState # "Unknown" /\ lastState = Opposite(thr[t].state))]_vars

C2_Witness == \E t \in Threads : Has(thr[t].rec.ops, "play")

\* C3: a routing step taken with the display idle on a sample that differs
\* from lastState ends with the display cleared by it and lastState equal to
\* the sample.
C3_EdgeAlwaysHandled ==
    \A t \in Threads :
        (StepEnded(t) /\ ~thr[t].rec.anim /\ thr[t].rec.edge)
            => (Has(thr[t].rec.ops, "clear") /\ lastState = StateOf(thr[t].state))

\* C4: a routing step whose handler finds the display animating plays no
\* sound and does not write lastState; a sound is played only by a step that
\* found the display idle and its sample different from lastState.
C4_NothingWhileAnimating ==
    \A t \in Threads :
        /\ thr[t].rec.anim =>
              (~thr[t].rec.held /\ ~Has(thr[t].rec.ops, "play")
                                /\ ~Has(thr[t].rec.ops, "write"))
        /\ Has(thr[t].rec.ops, "play") => (~thr[t].rec.anim /\ thr[t].rec.edge)

C4_Witness ==
    \E t \in Threads : StepEnded(t) /\ thr[t].rec.anim /\ thr[t].rec.edge
                         /\ lastState # "Unknown"

C6_DrawOnlyOnEdge ==
    \A t \in Threads : Has(thr[t].rec.ops, "draw") => thr[t].rec.held

\* C6 amended: every routing step on the unplugged branch ends with a
\* draw_percentage call: after the notification, the clear and the write when
\* the guard held, and as the step's only effect when it did not.
C6_DrawEveryUnpluggedStep ==
    \A t \in Threads :
        (StepEnded(t) /\ thr[t].state = "unplugged") =>
            IF thr[t].rec.held
            THEN /\ thr[t].rec.ops \in {<<"clear", "write", "draw">>,
                                        <<"play", "clear", "write", "draw">>}
                 /\ ~thr[t].rec.anim /\ thr[t].rec.edge
            ELSE thr[t].rec.ops = <<"draw">>

C6_Witness ==
    \E t \in Threads : /\ StepEnded(t) /\ thr[t].state = "unplugged"
                       /\ ~thr[t].rec.held /\ ~thr[t].rec.edge
                       /\ thr[t].rec.ops = <<"draw">>

\* C7: stop() on a monitor that is not running fails with
\* PowerMonitorNotRunningError and changes nothing: a stop() call goes past its
\* guard only on a running monitor, and the failing call leaves the monitor's
\* fields, the display and the threads as they were.
C7_StopOnIdleFails ==
    [][/\ \A t \in Clients :
              (thr[t].pc = "idle" /\ thr'[t].pc = "stopStamp") => running
       /\ (outcome'.op = "stop" /\ ~running) =>
              /\ outcome'.err = "PowerMonitorNotRunningError"
              /\ UNCHANGED <<running, lastState, cycles, startTime, stopTime,
                             display, thr>>]_vars

C7_Witness ==
    /\ outcome = Fail("stop", "PowerMonitorNotRunningError")
    /\ startTime # None /\ stopTime # None

\* C8 as claimed: start() on a running monitor fails with AlreadyRunningError
\* and leaves startedAt, running and the threads unchanged.
C8_AlreadyRunningError ==
    [][(outcome'.op = "start" /\ running) =>
           /\ outcome'.err = "AlreadyRunningError"
           /\ UNCHANGED <<running, startTime, thr>>]_vars

\* C8 amended: start() on a running monitor fails with RuntimeError and
\* leaves startedAt, running and the threads unchanged (no additional loop).
C8_StartOnRunningFails ==
    [][(outcome'.op = "start" /\ running) =>
           /\ outcome'.err = "RuntimeError"
           /\ UNCHANGED <<running, startTime, thr>>]_vars

C8_Witness == outcome = Fail("start", "RuntimeError") /\ running

\* C9: run_time read on a monitor that was never started fails with
\* PowerMonitorNotRunningError.
C9_RunTimeBeforeStart ==
    (outcome.op = "run_time" /\ startTime = None)
        => outcome.err = "PowerMonitorNotRunningError"

C11_RunTimeWhileRunning ==
    (running /\ thr["main"].pc # "stopFlag" /\ thr["other"].pc # "stopFlag") =>
        /\ RunTimeError = ""
        /\ RunTimeValue = now - startTime
        /\ RunTimeValue >= 0

\* C12: in every state in which running is true and no stop() is between its
\* two writes (lines 424 and 425), stop_time is None.
C12_NoStopTimeWhileRunning ==
    (running /\ thr["main"].pc # "stopFlag" /\ thr["other"].pc # "stopFlag") =>
        stopTime = None

\* C13: start(threaded=True) runs the loop on the worker thread only and
\* returns to its caller once the worker is started and stop is registered:
\* the caller leaves line 400 for its own code, not for run().
C13_ThreadedStartReturns ==
    [][\A t \in Clients :
          (thr[t].pc = "spawn" /\ thr'[t].pc # "spawn")
              => (thr'[t].pc = "idle" /\ thr'["worker"].pc = "enter")]_vars

\* C14: at most one thread is inside the sampling loop at any time.
C14_SingleLoop == Cardinality({t \in Threads : thr[t].pc \in InLoop}) <= 1

\* C15: a KeyboardInterrupt raised while start() is inside the loop leaves
\* start() with no exception: it begins a stop() that skips the farewell
\* animation, and when that stop() returns running is false and the display
\* has been cleared.
C15_InterruptStops ==
    [][/\ (thr["main"].pc \in InLoop /\ outcome'.op = "interrupt") =>
              /\ outcome'.err = ""
              /\ thr'["main"].pc = "stopStamp" /\ thr'["main"].without
       /\ (thr["main"].pc = "stopFlag" /\ thr["main"].without)
              => thr'["main"].pc \in {"stopFlag", "stopClear"}
       /\ (thr["main"].pc = "stopClear" /\ thr'["main"].pc = "idle")
              => (~running' /\ display' = "clear")]_vars

\* The positions of a thread that has passed the guard of stop() (line 419)
\* and has not yet written the flag (line 425).
PastStopGuard == {"stopStamp", "stopFlag"}

\* C16: for each start() at most one stop() call executes its body.  Two
\* calls execute the body for the same start() exactly when both pass the
\* guard before either writes the flag, so at most one thread is between the
\* guard and the write.
C16_OneStopPerStart ==
    Cardinality({t \in Clients : thr[t].pc \in PastStopGuard}) <= 1

\* C17: a stop() that passed its guard writes stop_time, then the flag, and
\* only then touches the display; it plays the farewell exactly when
\* without_salutation is false; the last command it gives the display is
\* clear, whether or not the display is animating.
C17_StopSequence ==
    /\ \A t \in Clients :
          /\ thr[t].pc = "stopFlag" => (thr[t].rec.ops = <<"stamp">> /\ stopTime # None)
          /\ thr[t].pc = "stopFarewell" =>
                (thr[t].rec.ops = <<"stamp", "flag">> /\ ~thr[t].without)
          /\ thr[t].pc = "stopClear" =>
                thr[t].rec.ops = IF thr[t].without
                                 THEN <<"stamp", "flag">>
                                 ELSE <<"stamp", "flag", "goodbye">>
    /\ outcome.op = "stopped" => (display = "clear" /\ stopTime # None)

C17_Witness ==
    /\ outcome.op = "stopped" /\ display = "clear" /\ animating /\ ~running
    /\ thr["main"].pc \in InLoop

\* C18: assigning True to pm.running fails in every state of the monitor and
\* leaves running unchanged.
C18_SetTrueAlwaysFails ==
    [][outcome'.op = "setTrue" => (outcome'.err # "" /\ running' = running)]_vars

\* C19: once a loop has completed an iteration (its routing step has ended,
\* or an iteration has been counted), lastState is Plugged or Unplugged,
\* whatever the display's animating flag was during the iteration.
C19_KnownAfterFirstCheck ==
    ((\E t \in Threads : StepEnded(t)) \/ cycles > 0) => lastState # "Unknown"

\* C20: the cycle count never decreases.
C20_CyclesNeverDecrease == [][cycles' >= cycles]_vars

\* C21: every iteration counts its sample: a thread that has ended its
\* routing step goes on to the increment of the cycle count, also when the
\* flag was cleared during the routing step.
C21_EveryRoutedSampleCounted ==
    [][\A t \in Threads :
          (thr[t].pc = "after" /\ thr'[t].pc # "after") => thr'[t].pc = "inc"]_vars

\* C22: a failed sensor read ends the loop of the thread that made it, and
\* lastState and the cycle count are what they were when the failing
\* iteration began: the iteration has not written lastState, and the failing
\* step changes neither.
C22_FailedReadChangesNothing ==
    [][\A t \in Threads :
          (outcome'.op \in {"sample", "percent"} /\ thr[t].pc \in InLoop
                                                /\ thr'[t].pc = "idle")
              => /\ ~Has(thr[t].rec.ops, "write")
                 /\ lastState' = lastState /\ cycles' = cycles]_vars

\* C23: a sampling operation that cannot read the sensor fails with
\* BatteryStateUnknownError.
C23_BatteryStateUnknown ==
    outcome.op \in {"sample", "percent"} => outcome.err = "BatteryStateUnknownError"

\* C24: a loop thread observes a cleared flag at the loop condition or at the
\* test after routing, and then leaves the loop without a further routing
\* step or sleep; it leaves the loop nowhere else; and once the flag is
\* cleared every loop is eventually left, unless the monitor is started again.
C24_LoopObservesStop ==
    /\ [][\A t \in Threads :
             /\ (thr[t].pc \in {"test", "after"} /\ ~running /\ thr'[t] # thr[t])
                    => thr'[t].pc = "idle"
             /\ (thr[t].pc \in InLoop /\ thr'[t].pc \notin InLoop)
                    => (thr[t].pc \in {"test", "after"} /\ ~running)]_vars
    /\ (~running) ~> (running \/ \A t \in Threads : thr[t].pc \notin InLoop)

C24_Witness ==
    /\ outcome.op = "stopped" /\ ~running /\ cycles > 0
    /\ \A t \in Threads : thr[t].pc \notin InRun

\* C25: set_device fails with TypeError for an object that is neither a
\* controller nor a device handle and with ValueError for an unavailable
\* device, and a failing call leaves the bound controller and device as they
\* were.
C25_FailedSetDeviceChangesNothing ==
    [][call'.op = "set_device" =>
          /\ (call'.arg = "text") = (call'.err = "TypeError")
          /\ call'.err # "" => (controller' = controller /\ dev' = dev)]_vars

\* C26: create_event(None, cb) adds the sentinel exit event when the
\* collection has none, and fails with EventExistsError, changing nothing,
\* when it has one.
C26_ExitEventOnce ==
    [][(call'.op = "create_event" /\ call'.arg = NoKey) =>
          IF exit_event_exists
          THEN call'.err = "EventExistsError" /\ events' = events
          ELSE call'.err = "" /\ events' = Append(events, NewExitEvent)]_vars

\* C27: create_event with a string key whose normalized form is not in the
\* collection succeeds and adds exactly one event, which lookup then finds
\* under the key in every letter case.
C27_CreateThenLookup ==
    [][(call'.op = "create_event" /\ call'.arg \in RawKeys
                                  /\ Upper(call'.arg) \notin event_names) =>
          /\ call'.err = ""
          /\ Len(events') = Len(events) + 1
          /\ \A k \in RawKeys :
                Upper(k) = Upper(call'.arg) => lookup(k)' = Len(events')]_vars

\* The errors with which a callback's raise leaves handle_event.
Raised == {"CallbackError", "SystemExit"}

\* C28 as claimed: whenever the callback raises, the event's times_failed
\* grows by exactly 1 and no other event changes.
C28_AnyRaiseCounted ==
    [][(call'.op = "handle_event" /\ call'.err \in Raised) =>
          LET i == lookup(call'.arg)
          IN  /\ Len(events') = Len(events)
              /\ events'[i].failed = events[i].failed + 1
              /\ \A j \in 1..Len(events) : j # i => events'[j] = events[j]]_vars

\* C28 amended: when the callback raises an Exception, the event's
\* times_failed grows by exactly 1; when it raises a BaseException that is
\* not an Exception, times_failed is unchanged; in both cases the call is
\* counted in times_handled, no other event changes and the callback's own
\* error reaches the caller.
C28_ExceptionCounted ==
    [][call'.op = "handle_event" =>
          LET i == lookup(call'.arg)
          IN  /\ call'.err \in Raised =>
                    /\ Len(events') = Len(events)
                    /\ events'[i].failed = events[i].failed
                           + (IF call'.err = "CallbackError" THEN 1 ELSE 0)
                    /\ events'[i].handled = events[i].handled + 1
                    /\ \A j \in 1..Len(events) : j # i => events'[j] = events[j]
              /\ (i # 0 /\ call'.err = "") => events'[i].failed = events[i].failed]_vars

C28_Witness ==
    /\ call.op = "handle_event" /\ call.err = "CallbackError"
    /\ Len(events) = 2
    /\ events[lookup(call.arg)].failed = 1
    /\ \E j \in 1..Len(events) : j # lookup(call.arg) /\ events[j].handled > 0

\* C29: every call of Event.handle counts in times_handled, whether the
\* callback returns, raises or is absent; times_failed never exceeds
\* times_handled; neither counter of an event in the collection decreases.
C29_HandledCounts ==
    /\ [](\A i \in 1..Len(events) : events[i].failed <= events[i].handled)
    /\ [][(call'.op = "handle_event" /\ lookup(call'.arg) # 0) =>
             LET i == lookup(call'.arg)
             IN  events'[i].handled = events[i].handled + 1]_vars
    /\ [][events' # <<>> =>
             \A i \in 1..Len(events) :
                 /\ events'[i].handled >= events[i].handled
                 /\ events'[i].failed >= events[i].failed]_vars

C29_Witness ==
    /\ Len(events) = 2
    /\ \E i \in 1..2 : events[i].cb /\ events[i].handled = 2 /\ events[i].failed = 1
    /\ \E i \in 1..2 : ~events[i].cb /\ events[i].handled > 0

\* C30: no two events of the collection have the same normalized key, and
\* at most one of them is the exit event.
C30_UniqueKeys ==
    /\ \A i, j \in 1..Len(events) :
          i # j => Upper(events[i].key) # Upper(events[j].key)
    /\ Cardinality({i \in 1..Len(events) : events[i].exit}) <= 1

C30_Witness ==
    /\ Len(events) = 2
    /\ call.op = "add_event" /\ call.err = "EventExistsError"
    /\ \E i \in 1..2 : events[i].handled > 0

\* C31: create_event and add_event with a key whose normalized form is in
\* the collection fail with EventExistsError, whatever the letter case of the
\* new key; add_event of an object that is not an Event fails with TypeError;
\* a failed call leaves the events and their order unchanged.
C31_ExistingKeyRefused ==
    [][call'.op \in {"add_event", "create_event"} =>
          /\ (/\ call'.arg \in RawKeys
              /\ \E i \in 1..Len(events) :
                    Upper(events[i].key) = Upper(call'.arg)) =>
                 call'.err = "EventExistsError"
          /\ (call'.op = "add_event" /\ call'.arg = "text") =>
                 call'.err = "TypeError"
          /\ call'.err # "" => events' = events]_vars

C31_Witness ==
    /\ call = [op |-> "create_event", arg |-> "foo", err |-> "EventExistsError"]
    /\ Len(events) = 2
    /\ events[2].key = "FOO"

C36_RunningMeansLoop ==
    (\A t \in Threads : thr[t].pc = "idle") => ~running /\ ~StartRefused

\* C37: under any interleaving of stop() on one thread with the loop on
\* another, once stop() has returned and every loop has exited, the last
\* command the display received is clear: no draw_percentage and no goodbye
\* animation comes after the final clear.
C37_LastCommandClear ==
    (/\ \A t \in Threads : thr[t].pc = "idle"
     /\ ~running
     /\ stopTime # None) => display = "clear"

\* stop() has returned and a loop has left after it.
C37_Witness ==
    /\ \A t \in Threads : thr[t].pc = "idle"
    /\ ~running
    /\ stopTime # None
    /\ outcome = NoCall
    /\ display = "clear"
    /\ lastState = "Unplugged"

\* C38: when a monitor started with start(threaded=True) has been stopped
\* explicitly, the stop() its exit hook makes at process exit fails with
\* PowerMonitorNotRunningError and has no effect: stop_time keeps its value,
\* no goodbye animation follows and the display receives no command.
C38_HookOnStoppedMonitor ==
    [][(outcome'.op = "hook" /\ ~running /\ stopTime # None) =>
          /\ outcome'.err = "PowerMonitorNotRunningError"
          /\ thr' = thr
          /\ stopTime' = stopTime
          /\ display' = display
          /\ running' = running]_vars

\* The hook's call has failed on a monitor stopped at an earlier time.
C38_Witness ==
    /\ outcome = Fail("hook", "PowerMonitorNotRunningError")
    /\ ech = "exiting"
    /\ stopTime # None
    /\ stopTime < now
    /\ \A t \in Threads : thr[t].pc = "idle"

\* C34: for each class of the singleton metaclass at most one instance is
\* ever stored, every successful construction call returns the stored
\* instance of its class, under any interleaving of the calls of several
\* threads, and the instances of different classes are distinct objects.
C34_OneInstance ==
    /\ [][\A c \in Classes :
             instances[c] # 0 => instances'[c] = instances[c]]_vars
    /\ [][(call'.op = "construct" /\ call'.err = "") =>
             \E t \in Clients :
                 /\ wt[t].pc \in {"check", "store"}
                 /\ wt'[t].pc = "idle"
                 /\ wt'[t].ret = instances'[call'.arg]
                 /\ wt'[t].ret # 0]_vars
    /\ [](\A c, d \in Classes :
             (c # d /\ instances[c] # 0) => instances[c] # instances[d])

\* Both threads have constructed both classes and hold the same objects.
C34_Witness ==
    /\ instances["MainWindow"] # 0
    /\ instances["Layout"] # 0
    /\ wt["main"].ret = instances["MainWindow"]
    /\ wt["other"].ret = instances["MainWindow"]
    /\ call = [op |-> "construct", arg |-> "MainWindow", err |-> ""]

\* The positions of a thread inside start(), from the call of run() on.
InEventLoop == {"run", "loop", "handleStop", "runStop", "startStop"}

\* A thread is at the with statement and another thread holds the lock.
Waits(t) == wt[t].pc = "lock" /\ lock # "free"

\* C35: the creation lock is held only while an instance is being created: a
\* construction call never waits for a thread that is in the event loop of a
\* window of another class, constructed with auto-build and auto-run, and a
\* call for a class whose instance is stored never waits.
C35_LockOnlyForCreation ==
    \A t \in Clients :
        Waits(t) =>
            /\ \A u \in Clients :
                  (lock = u /\ wt[u].cls # wt[t].cls) =>
                        wt[u].pc \notin InEventLoop
            /\ instances[wt[t].cls] = 0

\* C39: start() on a built window that is not running runs the event loop
\* and, when the loop has ended, returns without raising, with running False
\* and stop() executed exactly once for that start; start() on a running
\* window and stop() on a window that is not running fail and change nothing.
C39_StartRunsLoopOnce ==
    /\ [][\A t \in Clients :
             (wt[t].pc = "startStop" /\ wt'[t].pc # "startStop") =>
                 /\ call'.err = ""
                 /\ ~win'[wt[t].cls].running
                 /\ win'[wt[t].cls].stops = 1]_vars
    /\ [][\A t \in Clients :
             (/\ wt'[t] # wt[t]
              /\ \/ wt[t].pc = "start" /\ win[wt[t].cls].running
                 \/ wt[t].pc = "stop" /\ ~win[wt[t].cls].running) =>
                 /\ call'.err = "RuntimeError"
                 /\ win' = win]_vars

\* C40: once WindowBase.__init__ has finished successfully, initialized is
\* True and every assignment to auto_build or auto_run fails with
\* RuntimeError and leaves the value unchanged; the assignments __init__
\* itself makes are accepted.
C40_InitializedAfterInit ==
    /\ [](\A c \in WinClasses : instances[c] # 0 => win[c].initialized)
    /\ [][call'.op \in {"auto_build", "auto_run"} =>
             /\ call'.err = "RuntimeError"
             /\ win' = win]_vars

=============================================================================
